---- MODULE Spec2Model ----
(***************************************************************************)
(* Veo Batch Studio: the client-side job queue of App.tsx.                 *)
(*                                                                         *)
(* State: the React state `jobs`, `queueStarts`, `apiKeySet`, the two refs *)
(* the interval callback reads (`jobsRef`, `queueStartsRef`), the promise  *)
(* chains of startJob that are still in flight (`execs`), the wall clock   *)
(* (`now`) and whether process.env.API_KEY holds a key (`envKey`).         *)
(* `admitLog` records the admissions of the trailing window, `failures`    *)
(* counts the executions that have failed so far, and `timers` holds the   *)
(* setTimeout callbacks of "download all" that have not run yet.           *)
(*                                                                         *)
(* Every setJobs / setQueueStarts updater is one state change, applied in  *)
(* the order it was queued.  The re-render that follows a handler assigns  *)
(* the refs (App.tsx lines 19 and 22); React commits it before the next    *)
(* run of the 1000 ms interval callback, so it is part of the handler's    *)
(* action.  The clock advances with the runs of the interval callback;     *)
(* Date.now() in the other handlers reads the time of the latest run.      *)
(***************************************************************************)
EXTENDS Integers, Sequences, FiniteSets, Bags, TLC

VARIABLES jobs, queueStarts, jobsRef, queueStartsRef, apiKeySet, envKey,
          execs, now, admitLog, failures, timers

vars == <<jobs, queueStarts, jobsRef, queueStartsRef, apiKeySet, envKey,
          execs, now, admitLog, failures, timers>>

\* ---------------------------------------------------------------- constants
MAX_CONCURRENT_JOBS == 4
RATE_LIMIT_WINDOW_MS == 60000
MAX_STARTS_PER_WINDOW == 4
TICK_MS == 1000

\* ------------------------------------------------------------------- bounds
\* Total number of jobs ever created.
MaxJobs == 5
\* Executions that fail, over the whole run.
MaxFailures == 1
\* Runs of the interval callback in a behaviour of Spec / of SpecLong.
MaxTicks == 4
MaxLongTicks == 10
\* Runs of the interval callback in a behaviour of SpecA.
MaxScenarioTicks == 130
\* Runs of the interval callback within which a remote call resolves or
\* fails, in SpecLive.
MaxExecTicks == 3

\* Spacing between two consecutive runs of the interval callback.  The timer
\* fires no sooner than one period after the previous run and may be late;
\* the spacing is sampled at 12 periods so that a behaviour spans a whole
\* rate window (an entry is 48000 ms old after four runs, 60000 after five).
TickStep == 12 * TICK_MS
Steps == {TickStep}

\* Prompts typed into the form ("" is rejected by handleSubmit) and batch
\* sizes: a small batch, a full batch, and 0 for the NaN of an emptied
\* number input (Array.from({length: NaN}) is empty).
Prompts == {"", "cat", "dog"}
Counts == {0, MaxJobs - 3, MaxJobs}

\* error.message values the remote service / transport may carry.
RemoteMessages == {"", "quota exceeded"}

\* ---------------------------------------------------------------- JobStatus
PENDING == "PENDING"
PROCESSING == "PROCESSING"
COMPLETED == "COMPLETED"
FAILED == "FAILED"

\* An optional field is <<>> when undefined and <<v>> when it holds v.
Undefined == <<>>
Some(v) == <<v>>

\* JobConfig as handleSubmit builds it from the form state.
MakeConfig(prompt) ==
    [prompt |-> prompt, inputType |-> "Text Only",
     model |-> "veo-3.1-fast-generate-preview", aspectRatio |-> "16:9",
     resolution |-> "720p", imageBase64 |-> Undefined,
     imageMimeType |-> "image/png"]

\* ------------------------------------------------------------ pure helpers
\* { ...job, status, ...updates }
MergeJob(job, status, updates) ==
    [f \in DOMAIN job |->
        IF f \in DOMAIN updates THEN updates[f]
        ELSE IF f = "status" THEN status
        ELSE job[f]]

\* Mutant: the id comparison accepts every job.
updateJobStatus_EveryJob(js, id, status, updates) ==
    [i \in 1..Len(js) |-> MergeJob(js[i], status, updates)]

\* prev.map(job => job.id === id ? {...job, status, ...updates} : job)
updateJobStatus(js, id, status, updates) ==
    [i \in 1..Len(js) |->
        IF js[i].id = id THEN MergeJob(js[i], status, updates) ELSE js[i]]

\* Mutant: retry leaves the error in place.
handleRetry_KeepError(js, id) == updateJobStatus(js, id, PENDING, <<>>)

\* Mutant: retry re-queues the job at the end of the collection.
handleRetry_Requeue(js, id) ==
    SelectSeq(js, LAMBDA j : j.id # id)
      \o SelectSeq(updateJobStatus(js, id, PENDING, [error |-> Undefined]),
                   LAMBDA j : j.id = id)

handleRetry(js, id) ==
    updateJobStatus(js, id, PENDING, [error |-> Undefined])

\* Array.from({length: count}).map(() => ({id, config: {...config}, ...}))
NewJobs(firstId, config, count, t) ==
    [k \in 1..count |->
        [id |-> firstId + k - 1, config |-> config, status |-> PENDING,
         videoUri |-> Undefined, downloadUrl |-> Undefined,
         error |-> Undefined, createdAt |-> t, startedAt |-> Undefined,
         completedAt |-> Undefined]]

\* Mutant: the jobs share the form's config object instead of copying it.
addJobs_SharedConfig(js, config, count, t) ==
    [i \in 1..Len(js) |-> [js[i] EXCEPT !.config = config]]
      \o NewJobs(Len(js) + 1, config, count, t)

\* Mutant: the new jobs are put in front of the existing ones.
addJobs_Prepend(js, config, count, t) ==
    NewJobs(Len(js) + 1, config, count, t) \o js

\* setJobs(prev => [...prev, ...newJobs])
addJobs(js, config, count, t) == js \o NewJobs(Len(js) + 1, config, count, t)

\* Mutant: the filter keeps the entries of half a window only.
StillValid_HalfWindow(t, at) == at - t < RATE_LIMIT_WINDOW_MS \div 2

\* currentStarts.filter(t => now - t < RATE_LIMIT_WINDOW_MS)
StillValid(t, at) == at - t < RATE_LIMIT_WINDOW_MS
validStartsOf(starts, at) == SelectSeq(starts, LAMBDA t : StillValid(t, at))

\* currentJobs.filter(j => j.status === PROCESSING).length
ProcessingCount(js) == Cardinality({i \in 1..Len(js) : js[i].status = PROCESSING})

\* currentJobs.find(j => j.status === PENDING): its index, 0 when none.
PendingIndexes(js) == {i \in 1..Len(js) : js[i].status = PENDING}
\* Mutant: the last Pending job instead of the first.
FindCandidate_Last(js) ==
    IF PendingIndexes(js) = {} THEN 0
    ELSE CHOOSE i \in PendingIndexes(js) : \A k \in PendingIndexes(js) : i >= k

FindCandidate(js) ==
    IF PendingIndexes(js) = {} THEN 0
    ELSE CHOOSE i \in PendingIndexes(js) : \A k \in PendingIndexes(js) : i <= k

\* jobsRef.current.find(j => j.id === id): index, 0 when none.
FindById(js, id) ==
    IF \E i \in 1..Len(js) : js[i].id = id
    THEN CHOOSE i \in 1..Len(js) :
            js[i].id = id /\ \A k \in 1..Len(js) : js[k].id = id => i <= k
    ELSE 0

\* ---------------------------------------------------------------- Init
Init ==
    /\ jobs = <<>>
    /\ queueStarts = <<>>
    /\ jobsRef = <<>>
    /\ queueStartsRef = <<>>
    /\ apiKeySet = FALSE
    /\ envKey \in BOOLEAN
    /\ execs = EmptyBag
    /\ now = 0
    /\ admitLog = <<>>
    /\ failures = 0
    /\ timers = <<>>

\* ------------------------------------------------- rendering (lines 18-22)
\* Mutant: the ref is not assigned and keeps what it held.
RenderJobsRef_Stale(state, ref) == ref

\* jobsRef.current = jobs and queueStartsRef.current = queueStarts run on
\* every render; a render follows every handler that queued a state update.
RenderJobsRef(state, ref) == state
RenderStartsRef(state, ref) == state

Render ==
    /\ jobsRef' = RenderJobsRef(jobs', jobsRef)
    /\ queueStartsRef' = RenderStartsRef(queueStarts', queueStartsRef)

\* ------------------------------------------------------- API key (25-44)
\* checkKey: window.aistudio.hasSelectedApiKey() answers whether a key is
\* already in the environment.
CheckKey ==
    /\ envKey
    /\ ~apiKeySet
    /\ apiKeySet' = TRUE
    /\ UNCHANGED <<jobs, queueStarts, jobsRef, queueStartsRef, envKey, execs,
                   now, admitLog, failures, timers>>

\* handleSelectKey: the button is rendered only while !apiKeySet; the flag is
\* set whether or not the user picked a key in the selector.
HandleSelectKey(picked) ==
    /\ ~apiKeySet
    /\ apiKeySet' = TRUE
    /\ envKey' = (envKey \/ picked)
    /\ UNCHANGED <<jobs, queueStarts, jobsRef, queueStartsRef, execs, now,
                   admitLog, failures, timers>>

\* ------------------------------------------- JobForm.handleSubmit (35-50)
\* The form is rendered only when apiKeySet (App.tsx line 203).
Submit(prompt, count) ==
    /\ apiKeySet
    /\ prompt # ""
    /\ Len(jobs) + count <= MaxJobs
    /\ jobs' = addJobs(jobs, MakeConfig(prompt), count, now)
    /\ UNCHANGED <<queueStarts, apiKeySet, envKey, execs, now, admitLog,
                   failures, timers>>
    /\ Render

\* Mutant: the Retry button is offered for every job.
Retry_AnyStatus(i) ==
    /\ jobs' = handleRetry(jobs, jobs[i].id)
    /\ UNCHANGED <<queueStarts, apiKeySet, envKey, execs, now, admitLog,
                   failures, timers>>
    /\ Render

\* ------------------------------------------------ Retry button (JobRow 65)
Retry(i) ==
    /\ jobs[i].status = FAILED
    /\ jobs' = handleRetry(jobs, jobs[i].id)
    /\ UNCHANGED <<queueStarts, apiKeySet, envKey, execs, now, admitLog,
                   failures, timers>>
    /\ Render

\* Mutant: the concurrency constraint is not checked.
TickOutcome_NoConcurrencyCheck(curJobs, curStarts, at) ==
    IF Len(validStartsOf(curStarts, at)) # Len(curStarts) THEN "prune"
    ELSE IF Len(validStartsOf(curStarts, at)) >= MAX_STARTS_PER_WINDOW
         THEN "limited"
    ELSE IF FindCandidate(curJobs) = 0 THEN "idle"
    ELSE "admit"

\* Mutant: the starts-per-window constraint is not checked.
TickOutcome_NoRateCheck(curJobs, curStarts, at) ==
    IF Len(validStartsOf(curStarts, at)) # Len(curStarts) THEN "prune"
    ELSE IF ProcessingCount(curJobs) >= MAX_CONCURRENT_JOBS THEN "busy"
    ELSE IF FindCandidate(curJobs) = 0 THEN "idle"
    ELSE "admit"

\* Mutant: a job that has been Processing for a whole window no longer
\* counts against the concurrency constraint.
TickOutcome_SlotTimeout(curJobs, curStarts, at) ==
    IF Len(validStartsOf(curStarts, at)) # Len(curStarts) THEN "prune"
    ELSE IF Cardinality({i \in 1..Len(curJobs) :
                /\ curJobs[i].status = PROCESSING
                /\ at - curJobs[i].startedAt[1] < RATE_LIMIT_WINDOW_MS})
              >= MAX_CONCURRENT_JOBS THEN "busy"
    ELSE IF Len(validStartsOf(curStarts, at)) >= MAX_STARTS_PER_WINDOW
         THEN "limited"
    ELSE IF FindCandidate(curJobs) = 0 THEN "idle"
    ELSE "admit"

\* Mutant: expired entries are only left out of the count; the run goes on.
TickOutcome_NoPruneReturn(curJobs, curStarts, at) ==
    IF ProcessingCount(curJobs) >= MAX_CONCURRENT_JOBS THEN "busy"
    ELSE IF Len(validStartsOf(curStarts, at)) >= MAX_STARTS_PER_WINDOW
         THEN "limited"
    ELSE IF FindCandidate(curJobs) = 0 THEN "idle"
    ELSE "admit"

\* Mutant: the starts-per-window comparison is off by one.
TickOutcome_RateOffByOne(curJobs, curStarts, at) ==
    IF Len(validStartsOf(curStarts, at)) # Len(curStarts) THEN "prune"
    ELSE IF ProcessingCount(curJobs) >= MAX_CONCURRENT_JOBS THEN "busy"
    ELSE IF Len(validStartsOf(curStarts, at)) > MAX_STARTS_PER_WINDOW
         THEN "limited"
    ELSE IF FindCandidate(curJobs) = 0 THEN "idle"
    ELSE "admit"

\* ------------------------------------------------- processQueue (77-105)
TickOutcome(curJobs, curStarts, at) ==
    IF Len(validStartsOf(curStarts, at)) # Len(curStarts) THEN "prune"
    ELSE IF ProcessingCount(curJobs) >= MAX_CONCURRENT_JOBS THEN "busy"
    ELSE IF Len(validStartsOf(curStarts, at)) >= MAX_STARTS_PER_WINDOW
         THEN "limited"
    ELSE IF FindCandidate(curJobs) = 0 THEN "idle"
    ELSE "admit"

\* Mutant: the job is marked Processing only after the remote call.
startJobUpdate_Deferred(js, id, at) == js

\* Mutant: startedAt is written only when the job has none yet.
startJobUpdate_KeepFirst(js, id, at) ==
    updateJobStatus(js, id, PROCESSING,
        IF FindById(js, id) # 0 /\ js[FindById(js, id)].startedAt # Undefined
        THEN <<>> ELSE [startedAt |-> Some(at)])

\* startJob, line 110: the optimistic update.
startJobUpdate(js, id, at) ==
    updateJobStatus(js, id, PROCESSING, [startedAt |-> Some(at)])

\* Mutant: the start is not recorded for rate limiting.
startJobRecord_NotRecorded(starts, at) == starts

\* startJob, line 113.
startJobRecord(starts, at) == Append(starts, at)

KeyMissingMessage == "API Key not found. Please select a project."

\* Mutant: generateVideoJob does not check process.env.API_KEY.
startJobExec_NoKeyCheck(refJobs, id, key) ==
    IF FindById(refJobs, id) = 0 THEN EmptyBag
    ELSE SetToBag({[id |-> id,
                    config |-> refJobs[FindById(refJobs, id)].config,
                    stage |-> "running"]})

\* startJob, lines 115-119: the promise chain started for the job, none when
\* the ref does not hold the job.  generateVideoJob runs up to its first await
\* inside the call: without a key the promise is already rejected.  A chain
\* in stage "running" waits for generateVideoJob and then fetchVideoBlob.
startJobExec(refJobs, id, key) ==
    IF FindById(refJobs, id) = 0 THEN EmptyBag
    ELSE SetToBag({[id |-> id,
                    config |-> refJobs[FindById(refJobs, id)].config,
                    stage |-> IF key THEN "running" ELSE "rejected"]})

InWindow(t, at) == at - RATE_LIMIT_WINDOW_MS < t /\ t <= at

processQueue(d, horizon) ==
    /\ now + d <= horizon
    /\ now' = now + d
    /\ LET at == now + d
           outcome == TickOutcome(jobsRef, queueStartsRef, at)
           id == jobsRef[FindCandidate(jobsRef)].id
       IN  /\ IF outcome = "prune"
              THEN /\ queueStarts' = validStartsOf(queueStartsRef, at)
                   /\ UNCHANGED <<jobs, execs>>
              ELSE IF outcome = "admit"
              THEN /\ jobs' = startJobUpdate(jobs, id, at)
                   /\ queueStarts' = startJobRecord(queueStarts, at)
                   /\ execs' = execs (+) startJobExec(jobsRef, id, envKey)
              ELSE UNCHANGED <<jobs, queueStarts, execs>>
           /\ admitLog' =
                 SelectSeq(admitLog, LAMBDA t : InWindow(t, at))
                   \o (IF outcome = "admit" THEN <<at>> ELSE <<>>)
    /\ UNCHANGED <<apiKeySet, envKey, failures, timers>>
    /\ Render

Tick(d) == processQueue(d, MaxTicks * TickStep)

\* ------------------------------------- startJob's promise chain (118-134)
\* Mutant: the message is used as it is, without a fallback.
OrElse_NoFallback(message, fallback) == message

\* message || fallback
OrElse(message, fallback) == IF message = "" THEN fallback ELSE message

\* catch (err) { updateJobStatus(id, FAILED, {error: err.message || ...}) }
Fail(e, message) ==
    /\ failures < MaxFailures
    /\ failures' = failures + 1
    /\ jobs' = updateJobStatus(jobs, e.id, FAILED,
                   [error |-> Some(OrElse(message, "Unknown error occurred"))])
    /\ execs' = execs (-) SetToBag({e})
    /\ UNCHANGED <<queueStarts, apiKeySet, envKey, now, admitLog, timers>>
    /\ Render

\* Mutant: the re-throw replaces the message by the generic one.
Rethrown_Generic(message) == "Failed to generate video"

\* generateVideoJob's own catch re-throws new Error(error.message || ...).
Rethrown(message) == OrElse(message, "Failed to generate video")

\* The promise rejected at the call (no key) reaches startJob's catch.
KeyMissing(e) ==
    /\ e.stage = "rejected"
    /\ Fail(e, KeyMissingMessage)

\* generateVideos or getVideosOperation rejects with error.message = m.
TransportFails(e, m) ==
    /\ e.stage = "running"
    /\ Fail(e, Rethrown(m))

\* The polled operation is done and carries operation.error with message m.
OperationError(e, m) ==
    /\ e.stage = "running"
    /\ Fail(e, Rethrown(OrElse(m, "Unknown generation error")))

\* The polled operation is done without a video uri.
OperationEmpty(e) ==
    /\ e.stage = "running"
    /\ Fail(e, Rethrown("No video URI returned in response"))

\* generateVideoJob returns a uri; fetchVideoBlob: response.ok is false.
FetchNotOk(e) ==
    /\ e.stage = "running"
    /\ Fail(e, "Failed to download video file")

\* generateVideoJob returns a uri; fetch or response.blob rejects with
\* error.message = m.
FetchRejects(e, m) ==
    /\ e.stage = "running"
    /\ Fail(e, m)

\* generateVideoJob returns a uri and fetchVideoBlob a blob url: 124-128.
Complete(e) ==
    /\ e.stage = "running"
    /\ jobs' = updateJobStatus(jobs, e.id, COMPLETED,
                   [completedAt |-> Some(now), videoUri |-> Some("video-uri"),
                    downloadUrl |-> Some("blob-url")])
    /\ execs' = execs (-) SetToBag({e})
    /\ UNCHANGED <<queueStarts, apiKeySet, envKey, now, admitLog, failures,
                   timers>>
    /\ Render

\* ------------------------------------------------- downloads (138-156)
\* jobs.filter(j => j.status === COMPLETED && j.downloadUrl)
CompletedWithUrl(js) ==
    SelectSeq(js, LAMBDA j : j.status = COMPLETED /\ j.downloadUrl # Undefined
                              /\ j.downloadUrl # Some(""))

\* Mutant: the stagger counts the jobs from 1.
DownloadTimers_FromOne(js) ==
    [k \in 1..Len(CompletedWithUrl(js)) |->
        [id |-> CompletedWithUrl(js)[k].id,
         downloadUrl |-> CompletedWithUrl(js)[k].downloadUrl,
         delay |-> k * 500]]

\* completed.forEach((job, index) => setTimeout(..., index * 500)): one timer
\* per job, holding the job it was created for and its delay.
DownloadTimers(js) ==
    [k \in 1..Len(CompletedWithUrl(js)) |->
        [id |-> CompletedWithUrl(js)[k].id,
         downloadUrl |-> CompletedWithUrl(js)[k].downloadUrl,
         delay |-> (k - 1) * 500]]

\* handleDownloadAll: the button is rendered while a job is Completed
\* (line 216).  It is pressed again only after the timers of the previous
\* press have run.
DownloadAll ==
    /\ \E i \in 1..Len(jobs) : jobs[i].status = COMPLETED
    /\ timers = <<>>
    /\ timers' = timers \o DownloadTimers(jobs)
    /\ UNCHANGED <<jobs, queueStarts, jobsRef, queueStartsRef, apiKeySet,
                   envKey, execs, now, admitLog, failures>>

\* The timer with the smallest delay runs handleDownload(job): the link is
\* clicked when the job has a downloadUrl; the program's state is not changed.
RunDownload ==
    /\ timers # <<>>
    /\ timers' = Tail(timers)
    /\ UNCHANGED <<jobs, queueStarts, jobsRef, queueStartsRef, apiKeySet,
                   envKey, execs, now, admitLog, failures>>

\* ------------------------------------------------------------------ Next
Next ==
    \/ CheckKey
    \/ \E picked \in BOOLEAN : HandleSelectKey(picked)
    \/ \E p \in Prompts, c \in Counts : Submit(p, c)
    \/ \E i \in 1..Len(jobs) : Retry(i)
    \/ \E d \in Steps : Tick(d)
    \/ \E e \in BagToSet(execs) : KeyMissing(e)
    \/ \E e \in BagToSet(execs), m \in RemoteMessages : TransportFails(e, m)
    \/ \E e \in BagToSet(execs), m \in RemoteMessages : OperationError(e, m)
    \/ \E e \in BagToSet(execs) : OperationEmpty(e)
    \/ \E e \in BagToSet(execs) : FetchNotOk(e)
    \/ \E e \in BagToSet(execs), m \in RemoteMessages : FetchRejects(e, m)
    \/ \E e \in BagToSet(execs) : Complete(e)

Spec == Init /\ [][Next]_vars

\* A batch of MaxJobs jobs submitted at time 0 with a key in the environment
\* (the state Spec reaches by CheckKey and one Submit), followed for
\* MaxLongTicks runs of the interval callback.  An execution completes, stays
\* in flight, or fails; every failure reaches the same catch of startJob, so
\* one kind of failure (an operation without a video) stands for them here.
InitLong ==
    /\ jobs = addJobs(<<>>, MakeConfig("cat"), MaxJobs, 0)
    /\ queueStarts = <<>>
    /\ jobsRef = jobs
    /\ queueStartsRef = <<>>
    /\ apiKeySet = TRUE
    /\ envKey = TRUE
    /\ execs = EmptyBag
    /\ now = 0
    /\ admitLog = <<>>
    /\ failures = 0
    /\ timers = <<>>

TickLong(d) == processQueue(d, MaxLongTicks * TickStep)

NextLong ==
    \/ \E i \in 1..Len(jobs) : Retry(i)
    \/ \E d \in Steps : TickLong(d)
    \/ \E e \in BagToSet(execs) : OperationEmpty(e)
    \/ \E e \in BagToSet(execs) : Complete(e)

SpecLong == InitLong /\ [][NextLong]_vars

\* Scenario A: the batch of InitLong, the interval callback running exactly
\* every TICK_MS, and every remote call succeeding at once: an execution
\* completes before the next run of the callback.
TickA ==
    /\ execs = EmptyBag
    /\ processQueue(TICK_MS, MaxScenarioTicks * TICK_MS)

NextA ==
    \/ TickA
    \/ \E e \in BagToSet(execs) : Complete(e)

SpecA == InitLong /\ [][NextA]_vars

\* Scenario D: the batch of InitLong with "download all": jobs complete or
\* fail, the button is pressed and the timers run.
NextD ==
    \/ \E d \in Steps : Tick(d)
    \/ \E e \in BagToSet(execs) : OperationEmpty(e)
    \/ \E e \in BagToSet(execs) : Complete(e)
    \/ DownloadAll
    \/ RunDownload

SpecD == InitLong /\ [][NextD]_vars

\* One job more than the caps allow at a time, submitted at time 0 with a key
\* in the environment, the interval callback running for ever and every
\* remote call resolving or failing within MaxExecTicks runs of the callback.
\* The call of the first job may fail; every job takes the same path through
\* startJob.  The runs that find every job Completed or Failed change no job
\* and are left out, so the clock stands still until a retry.  LiveHorizon is
\* more time than the admissions of all jobs and retries can take.
InitLive ==
    /\ jobs = addJobs(<<>>, MakeConfig("cat"), MAX_CONCURRENT_JOBS + 1, 0)
    /\ queueStarts = <<>>
    /\ jobsRef = jobs
    /\ queueStartsRef = <<>>
    /\ apiKeySet = TRUE
    /\ envKey = TRUE
    /\ execs = EmptyBag
    /\ now = 0
    /\ admitLog = <<>>
    /\ failures = 0
    /\ timers = <<>>

LiveHorizon ==
    (MAX_CONCURRENT_JOBS + 1 + MaxFailures)
        * (MAX_STARTS_PER_WINDOW + 1 + MaxExecTicks) * TickStep

Overdue(at) ==
    \E i \in 1..Len(jobs) :
        /\ jobs[i].status = PROCESSING
        /\ at - jobs[i].startedAt[1] > MaxExecTicks * TickStep

TickLive(d) ==
    /\ \E i \in 1..Len(jobs) : jobs[i].status \in {PENDING, PROCESSING}
    /\ ~Overdue(now + d)
    /\ processQueue(d, LiveHorizon)

Resolve ==
    \/ \E e \in BagToSet(execs) : e.id = jobs[1].id /\ OperationEmpty(e)
    \/ \E e \in BagToSet(execs) : Complete(e)

NextLive ==
    \/ \E i \in 1..Len(jobs) : Retry(i)
    \/ \E d \in Steps : TickLive(d)
    \/ Resolve

\* setInterval keeps running the callback (weak fairness of the runs); every
\* remote call ends (weak fairness of the resolutions).
SpecLive ==
    /\ InitLive
    /\ [][NextLive]_vars
    /\ WF_vars(\E d \in Steps : TickLive(d))
    /\ WF_vars(Resolve)

\* ====================================================================
\* Properties
\* ====================================================================
JobIndexes == 1..Len(jobs)
IsSet(field) == field # Undefined
\* The job at index i was admitted by the latest run of the callback.
JustAdmitted(i) == jobs[i].status = PROCESSING /\ jobs[i].startedAt = Some(now)
\* Number of promise chains in flight for job id.
ExecsOf(id) == BagCardinality([e \in {x \in BagToSet(execs) : x.id = id} |-> execs[e]])

\* C1: in every reachable state at most MAX_CONCURRENT_JOBS (4) jobs have
\* status Processing.
C1_ConcurrencyCap == ProcessingCount(jobs) <= MAX_CONCURRENT_JOBS

\* The cap itself is what holds a Pending job back: four jobs execute, the
\* rate window has room, and a run of the callback has passed without
\* admitting.
C1_Witness ==
    /\ ProcessingCount(jobs) = MAX_CONCURRENT_JOBS
    /\ PendingIndexes(jobs) # {}
    /\ Len(queueStarts) < MAX_STARTS_PER_WINDOW
    /\ \A i \in JobIndexes : ~JustAdmitted(i)
    /\ now > 0

\* C2: at every time no more than MAX_STARTS_PER_WINDOW (4) admissions,
\* re-admissions of retried jobs included, lie in the trailing window
\* (now - 60000, now]; the stored collection never holds more than 4 entries
\* that are still inside the window.
C2_RateWindow ==
    /\ Len(admitLog) <= MAX_STARTS_PER_WINDOW
    /\ Len(SelectSeq(queueStarts, LAMBDA t : InWindow(t, now)))
          <= MAX_STARTS_PER_WINDOW

\* The window is what holds a Pending job back: four admissions in the
\* window, fewer than four jobs executing, a run has passed without admitting.
C2_Witness ==
    /\ Len(admitLog) = MAX_STARTS_PER_WINDOW
    /\ ProcessingCount(jobs) < MAX_CONCURRENT_JOBS
    /\ PendingIndexes(jobs) # {}
    /\ \A i \in JobIndexes : ~JustAdmitted(i)
    /\ \E i \in JobIndexes : jobs[i].status = PENDING /\ IsSet(jobs[i].startedAt)

\* C3: what a run of the callback reads is what the earlier runs wrote (the
\* refs hold the job marked Processing and the appended timestamp), so a job
\* has at most one execution in flight and has status Processing while it is.
C3_NoDoubleAdmission ==
    /\ jobsRef = jobs
    /\ queueStartsRef = queueStarts
    /\ \A e \in BagToSet(execs) :
          /\ ExecsOf(e.id) = 1
          /\ \E i \in JobIndexes : jobs[i].id = e.id /\ jobs[i].status = PROCESSING
    /\ \A i \in JobIndexes : jobs[i].status = PROCESSING => ExecsOf(jobs[i].id) = 1

\* A later run of the callback admitted another job while the execution of an
\* earlier admitted job was still in flight.
C3_Witness ==
    \E i, k \in JobIndexes :
        /\ jobs[i].status = PROCESSING
        /\ IsSet(jobs[i].startedAt)
        /\ jobs[i].startedAt # Some(now)
        /\ ExecsOf(jobs[i].id) = 1
        /\ JustAdmitted(k)

\* C4: one run of the callback moves at most one job from Pending to
\* Processing and appends at most one timestamp to the rate window.
C4_Step ==
    /\ Cardinality({i \in JobIndexes :
          jobs[i].status = PENDING /\ jobs'[i].status = PROCESSING}) <= 1
    /\ Len(queueStarts') <= Len(queueStarts) + 1
C4_OneAdmissionPerTick == [][C4_Step]_vars

\* A run admitted one job although more jobs were Pending and slots were free.
C4_Witness ==
    /\ Cardinality({i \in JobIndexes : JustAdmitted(i)}) = 1
    /\ Cardinality(PendingIndexes(jobs)) >= 2
    /\ ProcessingCount(jobs) < MAX_CONCURRENT_JOBS
    /\ Len(queueStarts) < MAX_STARTS_PER_WINDOW

\* C5: the job a run of the callback admits is the first job in store order
\* that was Pending: no Pending job before it is left Pending.
C5_Step ==
    \A i \in JobIndexes :
        (jobs[i].status = PENDING /\ jobs'[i].status = PROCESSING)
            => \A k \in 1..(i - 1) : jobs[k].status # PENDING
C5_FifoAdmission == [][C5_Step]_vars

\* The admitted job is not the first of the collection: jobs before it are
\* past Pending, jobs after it are still Pending.
C5_Witness ==
    \E i \in JobIndexes :
        /\ JustAdmitted(i)
        /\ \E k \in 1..(i - 1) : jobs[k].status \in {COMPLETED, FAILED}
        /\ \E k \in (i + 1)..Len(jobs) : jobs[k].status = PENDING

\* C6: every status change is Pending->Processing, Processing->Completed,
\* Processing->Failed or Failed->Pending; Completed is never left.
Transitions ==
    {<<PENDING, PROCESSING>>, <<PROCESSING, COMPLETED>>,
     <<PROCESSING, FAILED>>, <<FAILED, PENDING>>}
C6_Step ==
    \A i \in JobIndexes :
        /\ i <= Len(jobs')
        /\ jobs'[i].status # jobs[i].status
              => <<jobs[i].status, jobs'[i].status>> \in Transitions
C6_Lifecycle == [][C6_Step]_vars

\* A job failed, was retried and is Pending again while another job has
\* reached Completed.
C6_Witness ==
    \E i, k \in JobIndexes :
        /\ jobs[i].status = PENDING /\ IsSet(jobs[i].startedAt)
        /\ jobs[k].status = COMPLETED

\* C7: error is set exactly when the job is Failed, videoUri and downloadUrl
\* exactly when it is Completed.
C7_ErrorResult ==
    \A i \in JobIndexes :
        /\ IsSet(jobs[i].error) <=> jobs[i].status = FAILED
        /\ IsSet(jobs[i].videoUri) <=> jobs[i].status = COMPLETED
        /\ IsSet(jobs[i].downloadUrl) <=> jobs[i].status = COMPLETED

\* The job that failed was retried, ran again and completed.
C7_Witness ==
    /\ failures > 0
    /\ jobs # <<>>
    /\ \A i \in JobIndexes : jobs[i].status = COMPLETED

\* C8: retry of a Failed job gives status Pending and no error, keeps its
\* config, its position and every other job, and a second retry changes
\* nothing more.
C8_Retry ==
    \A i \in JobIndexes :
        jobs[i].status = FAILED =>
            LET once == handleRetry(jobs, jobs[i].id)
            IN  /\ Len(once) = Len(jobs)
                /\ once[i].status = PENDING
                /\ once[i].error = Undefined
                /\ once[i].config = jobs[i].config
                /\ once[i] = [jobs[i] EXCEPT !.status = PENDING, !.error = Undefined]
                /\ \A k \in JobIndexes : k # i => once[k] = jobs[k]
                /\ handleRetry(once, jobs[i].id) = once

\* A Failed job stands before other jobs of the collection.
C8_Witness ==
    \E i \in JobIndexes :
        /\ jobs[i].status = FAILED
        /\ i < Len(jobs)

\* C9: no step changes the id or the config of an existing job.
C9_Step ==
    \A i \in JobIndexes :
        /\ i <= Len(jobs')
        /\ jobs'[i].id = jobs[i].id
        /\ jobs'[i].config = jobs[i].config
C9_ConfigImmutable == [][C9_Step]_vars

\* A job completed or failed after a later batch with another prompt was
\* submitted.
C9_Witness ==
    \E i, k \in JobIndexes :
        /\ i < k
        /\ jobs[i].config # jobs[k].config
        /\ jobs[i].status \in {COMPLETED, FAILED}
        /\ IsSet(jobs[i].startedAt)
        /\ jobs[i].startedAt[1] > jobs[k].createdAt

C11_Step ==
    /\ \A e \in BagToSet(execs) :
          execs' = execs (-) SetToBag({e}) =>
              \E i \in JobIndexes :
                  /\ jobs[i].id = e.id
                  /\ jobs[i].status = PROCESSING
                  /\ jobs'[i].status \in {COMPLETED, FAILED}
    /\ \A i \in JobIndexes :
          (jobs[i].status # FAILED /\ jobs'[i].status = FAILED) =>
              /\ jobs[i].status = PROCESSING
              /\ IsSet(jobs'[i].error)
              /\ jobs'[i].error # Some("")
              /\ jobs'[i] = [jobs[i] EXCEPT !.status = FAILED,
                                            !.error = jobs'[i].error]
              /\ Len(jobs') = Len(jobs)
              /\ \A k \in JobIndexes : k # i => jobs'[k] = jobs[k]
              /\ queueStarts' = queueStarts
              /\ ProcessingCount(jobs') = ProcessingCount(jobs) - 1
              /\ ExecsOf(jobs[i].id) = 1
              /\ \A e \in BagToSet(execs') : e.id # jobs[i].id
C11_FailureIsLocal == [][C11_Step]_vars

\* After a failure the failed job was retried and a later run of the callback
\* admitted it again: more admissions are recorded than jobs were started.
C11_Witness ==
    /\ failures > 0
    /\ \A i \in JobIndexes : jobs[i].status # FAILED
    /\ \E i \in JobIndexes : JustAdmitted(i)
    /\ Len(queueStarts) > Cardinality({i \in JobIndexes : IsSet(jobs[i].startedAt)})

\* Jobs that have left Pending, and the runs of the callback so far.
Admitted == {i \in JobIndexes : jobs[i].status # PENDING}
TicksSoFar == now \div TICK_MS
Min(a, b) == IF a <= b THEN a ELSE b

\* C12 as stated: after the first run (t = 1 s) four jobs have left Pending
\* and one is Pending; by t = 2 s no job is Pending.
C12_ScenarioA ==
    /\ now = TICK_MS =>
          /\ Cardinality(Admitted) = MAX_CONCURRENT_JOBS
          /\ Cardinality(PendingIndexes(jobs)) = Len(jobs) - MAX_CONCURRENT_JOBS
    /\ now >= 2 * TICK_MS => PendingIndexes(jobs) = {}

\* The last run at which the entry of the first run (at TICK_MS) is still
\* less than 60000 ms old.
LastRunInWindow == RATE_LIMIT_WINDOW_MS \div TICK_MS

\* C12 amended: every run admits one job, so after the k-th run (k <= 4)
\* exactly k jobs have left Pending, one of them Processing at a time; the
\* fifth job stays Pending, although the earlier jobs have completed, at
\* every run up to t = 60 s, while the four window entries are unexpired.
C12_ScenarioA_OnePerTick ==
    /\ TicksSoFar <= LastRunInWindow =>
          Cardinality(Admitted) =
              Min(Min(TicksSoFar, MAX_STARTS_PER_WINDOW), Len(jobs))
    /\ ProcessingCount(jobs) <= 1

\* At t = 60 s the four earlier jobs have completed and the fifth is Pending.
C12_Witness ==
    /\ now = LastRunInWindow * TICK_MS
    /\ Cardinality({i \in JobIndexes : jobs[i].status = COMPLETED})
          = MAX_STARTS_PER_WINDOW
    /\ \E i \in JobIndexes :
          /\ i > MAX_STARTS_PER_WINDOW
          /\ jobs[i].status = PENDING

\* C13: a run of the callback moves a job from Pending to Processing only
\* when fewer than four of the earlier admissions, and fewer than four stored
\* entries, are less than 60000 ms old at that run; with four such entries a
\* Pending job stays Pending whatever the state of the earlier jobs.
C13_Step ==
    (\E i \in JobIndexes :
        jobs[i].status = PENDING /\ jobs'[i].status = PROCESSING) =>
        /\ Len(SelectSeq(admitLog, LAMBDA t : now' - t < RATE_LIMIT_WINDOW_MS))
              < MAX_STARTS_PER_WINDOW
        /\ Len(SelectSeq(queueStarts, LAMBDA t : now' - t < RATE_LIMIT_WINDOW_MS))
              < MAX_STARTS_PER_WINDOW
C13_ScenarioB == [][C13_Step]_vars

\* Four jobs were admitted in one window and have all completed; a later
\* run of the callback has left the fifth job Pending.
C13_Witness ==
    /\ Len(admitLog) = MAX_STARTS_PER_WINDOW
    /\ admitLog[MAX_STARTS_PER_WINDOW] < now
    /\ Cardinality({i \in JobIndexes : jobs[i].status = COMPLETED})
          = MAX_STARTS_PER_WINDOW
    /\ \E i \in JobIndexes :
          jobs[i].status = PENDING /\ ~IsSet(jobs[i].startedAt)

\* C14: when the polled operation of a job ends with an error whose message
\* is m, the job becomes Failed with error m, or "Unknown generation error"
\* when m is empty, the re-throw in between changing nothing; retry of that
\* job then gives status Pending and no error.
C14_Step ==
    \A e \in BagToSet(execs), m \in RemoteMessages :
        OperationError(e, m) =>
            \E i \in JobIndexes :
                /\ jobs[i].id = e.id
                /\ jobs'[i].status = FAILED
                /\ jobs'[i].error =
                      Some(IF m = "" THEN "Unknown generation error" ELSE m)
                /\ handleRetry(jobs', e.id)[i].status = PENDING
                /\ handleRetry(jobs', e.id)[i].error = Undefined
C14_ScenarioC == [][C14_Step]_vars

\* A job has failed on a remote error that had no message of its own.
C14_Witness ==
    \E i \in JobIndexes :
        /\ jobs[i].status = FAILED
        /\ jobs[i].error = Some("Unknown generation error")

\* C15: addJobs with a positive count appends exactly count jobs, Pending,
\* with the given config and ids that differ from one another and from the
\* existing ones, after the existing jobs, which stay as they were and in
\* their order; with a count of 0 or less the collection stays as it was.
C15_CreateJobs ==
    \A p \in Prompts \ {""}, c \in (-1)..MaxJobs :
        LET config == MakeConfig(p)
            out == addJobs(jobs, config, c, now)
        IN  IF c > 0
            THEN /\ Len(out) = Len(jobs) + c
                 /\ \A i \in JobIndexes : out[i] = jobs[i]
                 /\ \A k \in (Len(jobs) + 1)..Len(out) :
                       /\ out[k].status = PENDING
                       /\ out[k].config = config
                       /\ out[k].createdAt = now
                       /\ \A l \in 1..Len(out) : l # k => out[l].id # out[k].id
            ELSE out = jobs

\* A second batch was appended after a job of the first batch had been
\* started.
C15_Witness ==
    \E i, k \in JobIndexes :
        /\ i < k
        /\ IsSet(jobs[i].startedAt)
        /\ jobs[k].createdAt > jobs[i].createdAt
        /\ jobs[k].status = PENDING
        /\ jobs[k].id # jobs[i].id

\* C16 amended: createdAt is written at creation only; completedAt is
\* written once, by the step Processing->Completed; startedAt is written by
\* every step Pending->Processing, with the time of that run, and by no other
\* step, so the admission that follows a retry overwrites it.
C16_Step ==
    \A i \in JobIndexes :
        /\ jobs'[i].createdAt = jobs[i].createdAt
        /\ (jobs[i].status = PENDING /\ jobs'[i].status = PROCESSING)
              => jobs'[i].startedAt = Some(now')
        /\ jobs'[i].startedAt # jobs[i].startedAt
              => (jobs[i].status = PENDING /\ jobs'[i].status = PROCESSING)
        /\ (jobs[i].status = PROCESSING /\ jobs'[i].status = COMPLETED)
              => jobs'[i].completedAt = Some(now')
        /\ jobs'[i].completedAt # jobs[i].completedAt
              => /\ jobs[i].status = PROCESSING /\ jobs'[i].status = COMPLETED
                 /\ ~IsSet(jobs[i].completedAt)
C16_Timestamps == [][C16_Step]_vars

\* C16 as stated: each timestamp is written at its own transition only, and
\* a startedAt or completedAt that is set is never written again.
C16_OnceStep ==
    /\ C16_Step
    /\ \A i \in JobIndexes :
          /\ IsSet(jobs[i].startedAt) => jobs'[i].startedAt = jobs[i].startedAt
          /\ IsSet(jobs[i].completedAt) => jobs'[i].completedAt = jobs[i].completedAt
C16_WrittenOnce == [][C16_OnceStep]_vars

\* A job was admitted, failed, was retried and admitted again: the time of
\* its first admission is recorded in the rate window but is no job's
\* startedAt any more.
C16_Witness ==
    /\ failures > 0
    /\ \E k \in 1..Len(queueStarts) :
          \A i \in JobIndexes : jobs[i].startedAt # Some(queueStarts[k])

\* C17: "download all" schedules exactly one download for each job that is
\* Completed and has a downloadUrl and none for any other job, in store
\* order, the k-th of them (k = 0, 1, 2, ...) at delay 500 * k ms; it changes
\* no job.
C17_Step ==
    (timers = <<>> /\ timers' # <<>>) =>
        /\ \A i \in JobIndexes :
              Cardinality({k \in 1..Len(timers') : timers'[k].id = jobs[i].id})
                = IF jobs[i].status = COMPLETED /\ IsSet(jobs[i].downloadUrl)
                  THEN 1 ELSE 0
        /\ \A k \in 1..Len(timers') :
              /\ timers'[k].delay = 500 * (k - 1)
              /\ \E i \in JobIndexes :
                    /\ jobs[i].id = timers'[k].id
                    /\ jobs[i].downloadUrl = timers'[k].downloadUrl
        /\ \A k, l \in 1..Len(timers') :
              k < l => FindById(jobs, timers'[k].id) < FindById(jobs, timers'[l].id)
        /\ jobs' = jobs
C17_DownloadAll == [][C17_Step]_vars

\* Three jobs are Completed and one is Failed: three downloads are scheduled,
\* at 0, 500 and 1000 ms, none of them for the Failed job.
C17_Witness ==
    /\ Len(timers) = 3
    /\ timers[1].delay = 0 /\ timers[2].delay = 500 /\ timers[3].delay = 1000
    /\ Cardinality({i \in JobIndexes : jobs[i].status = COMPLETED}) = 3
    /\ \E i \in JobIndexes :
          /\ jobs[i].status = FAILED
          /\ \E k \in JobIndexes : i < k /\ jobs[k].status = COMPLETED

\* C18: a run of the callback at which a stored entry is 60000 ms old or
\* older changes no job, starts no execution and appends nothing: the stored
\* collection becomes the entries t with now - t < 60000.  A run at which no
\* entry is that old leaves the collection as it was, or admits one job and
\* appends the time of the run.
C18_Step ==
    now' # now =>
        IF validStartsOf(queueStarts, now') # queueStarts
        THEN /\ jobs' = jobs
             /\ execs' = execs
             /\ queueStarts' = SelectSeq(queueStarts,
                                  LAMBDA t : now' - t < RATE_LIMIT_WINDOW_MS)
        ELSE \/ queueStarts' = queueStarts /\ jobs' = jobs
             \/ /\ queueStarts' = Append(queueStarts, now')
                /\ \E i \in JobIndexes :
                      jobs[i].status = PENDING /\ jobs'[i].status = PROCESSING
C18_PruneOnly == [][C18_Step]_vars

\* The latest run only pruned: before it every started job had completed, a
\* job that was never started is Pending and the stored collection has room,
\* yet that run admitted nothing.
C18_Witness ==
    /\ queueStarts # <<>>
    /\ Len(queueStarts) < MAX_STARTS_PER_WINDOW
    /\ \E i \in JobIndexes : jobs[i].status = PENDING
    /\ \A i \in JobIndexes :
          \/ jobs[i].status = PENDING /\ ~IsSet(jobs[i].startedAt)
          \/ /\ jobs[i].status = COMPLETED
             /\ jobs[i].completedAt[1] < now
             /\ jobs[i].startedAt[1] < now

\* C19: when a run of the callback finds a Pending job, fewer than four jobs
\* Processing and fewer than four stored entries younger than 60000 ms, and
\* does not admit, the run that follows TICK_MS later admits.
C19_Step ==
    ( /\ now' # now
      /\ PendingIndexes(jobs) # {}
      /\ ProcessingCount(jobs) < MAX_CONCURRENT_JOBS
      /\ Len(validStartsOf(queueStarts, now')) < MAX_STARTS_PER_WINDOW
      /\ \A i \in JobIndexes : jobs'[i].status = jobs[i].status )
    => TickOutcome(jobsRef', queueStartsRef', now' + TICK_MS) = "admit"
C19_OneTickDelay == [][C19_Step]_vars

\* C20: a Processing job leaves Processing only in the step that ends its
\* own execution; no run of the callback changes it, however long it has
\* been Processing.  A run that finds four jobs Processing changes no job,
\* so the Pending jobs stay Pending, also when the rate window is empty.
C20_Step ==
    /\ \A i \in JobIndexes :
          (jobs[i].status = PROCESSING /\ jobs'[i].status # PROCESSING) =>
              /\ now' = now
              /\ \E e \in BagToSet(execs) :
                    e.id = jobs[i].id /\ execs' = execs (-) SetToBag({e})
    /\ (now' # now /\ ProcessingCount(jobs) >= MAX_CONCURRENT_JOBS) =>
          /\ jobs' = jobs
          /\ execs' = execs
C20_NoTimeout == [][C20_Step]_vars

\* Four executions have been in flight for more than a window, every entry
\* of the rate window has expired and been removed, a run of the callback
\* has passed after that, and a job is still Pending.
C20_Witness ==
    /\ ProcessingCount(jobs) = MAX_CONCURRENT_JOBS
    /\ BagCardinality(execs) = MAX_CONCURRENT_JOBS
    /\ queueStarts = <<>>
    /\ admitLog = <<>>
    /\ PendingIndexes(jobs) # {}
    /\ \A i \in JobIndexes :
          jobs[i].status = PROCESSING =>
              now - jobs[i].startedAt[1] >= RATE_LIMIT_WINDOW_MS + TickStep

\* C21: with the callback running for ever, every remote call ending and
\* finitely many retries, whenever a job is Pending or Processing a state
\* follows in which every job is Completed or Failed: every Pending job has
\* been admitted (the only way out of Pending) and every admitted job has
\* reached Completed or Failed.
Unsettled ==
    \E i \in JobIndexes : jobs[i].status \in {PENDING, PROCESSING}
C21_Progress == Unsettled ~> ~Unsettled

\* Every job has completed, the last of them admitted after the rate window
\* had held it back and the runs that pruned the window had passed, one job
\* after a failure and a retry.
C21_Witness ==
    /\ failures > 0
    /\ \A i \in JobIndexes : jobs[i].status = COMPLETED
    /\ \E i \in JobIndexes :
          jobs[i].startedAt[1] >= RATE_LIMIT_WINDOW_MS + MAX_STARTS_PER_WINDOW * TickStep

\* The set of the entries of a sequence.
SeqRange(q) == {q[k] : k \in 1..Len(q)}

\* C22: the time of every admission is in the stored collection, and in the
\* snapshot the next run reads, for as long as it is less than 60000 ms old:
\* the write-back of a pruning run discards neither an entry that is still
\* inside the window nor one appended since the snapshot was taken.
C22_EntriesKept ==
    \A k \in 1..Len(admitLog) :
        now - admitLog[k] < RATE_LIMIT_WINDOW_MS =>
            /\ admitLog[k] \in SeqRange(queueStarts)
            /\ admitLog[k] \in SeqRange(queueStartsRef)

\* A pruning run has removed the entry of an admission that is 60000 ms old
\* and written back the younger entries, also that of an admission made
\* after the removed one.
C22_Witness ==
    /\ queueStarts # <<>>
    /\ \A k \in 1..Len(queueStarts) : now - queueStarts[k] < RATE_LIMIT_WINDOW_MS
    /\ \E i \in JobIndexes :
          /\ IsSet(jobs[i].startedAt)
          /\ now - jobs[i].startedAt[1] >= RATE_LIMIT_WINDOW_MS
          /\ jobs[i].startedAt[1] \notin SeqRange(queueStarts)
    /\ SeqRange(admitLog) = SeqRange(queueStarts)

\* C23: a step that makes a Failed job Pending again leaves the number of
\* jobs, their ids and their order as they were and changes no other job; a
\* step that admits a job that had been started before (a retried job) finds
\* no Pending job before it, leaves every job after it, so every job created
\* later, as it was, and is taken under the same two constraints as a first
\* admission: fewer than 4 jobs Processing, fewer than 4 entries in the
\* window, one entry with the time of the run appended and one more job
\* Processing afterwards.
C23_Step ==
    \A i \in JobIndexes :
        /\ (/\ jobs[i].status = FAILED
            /\ \E k \in 1..Len(jobs') :
                  jobs'[k].id = jobs[i].id /\ jobs'[k].status = PENDING)
             => /\ Len(jobs') = Len(jobs)
                /\ \A k \in JobIndexes :
                      /\ jobs'[k].id = jobs[k].id
                      /\ k # i => jobs'[k] = jobs[k]
                /\ UNCHANGED <<queueStarts, execs>>
        /\ (/\ jobs[i].status = PENDING
            /\ IsSet(jobs[i].startedAt)
            /\ i <= Len(jobs')
            /\ jobs'[i].status = PROCESSING)
             => /\ \A k \in JobIndexes :
                      /\ k < i => jobs[k].status # PENDING
                      /\ k > i => jobs'[k] = jobs[k]
                      /\ jobs[k].createdAt > jobs[i].createdAt => k > i
                /\ ProcessingCount(jobs) < MAX_CONCURRENT_JOBS
                /\ Len(validStartsOf(queueStarts, now')) < MAX_STARTS_PER_WINDOW
                /\ queueStarts' = Append(queueStarts, now')
                /\ jobs'[i].startedAt = Some(now')
                /\ ProcessingCount(jobs') = ProcessingCount(jobs) + 1
                /\ ExecsOf(jobs[i].id)' = ExecsOf(jobs[i].id) + 1
C23_RetryInPlace == [][C23_Step]_vars

\* The first job has been admitted twice, the second time by the latest run
\* and with an entry of its own in the window, while a job created after it
\* is still Pending and has never been started.
C23_Witness ==
    /\ Len(jobs) > 1
    /\ JustAdmitted(1)
    /\ Admitted = {1}
    /\ Len(queueStarts) = 2
    /\ queueStarts[1] < queueStarts[2]
    /\ queueStarts[2] = now
    /\ ProcessingCount(jobs) = 1
    /\ \E k \in JobIndexes :
          /\ jobs[k].status = PENDING
          /\ ~IsSet(jobs[k].startedAt)
          /\ jobs[k].createdAt > jobs[1].createdAt

====
